---- MODULE Spec2Model ----
(***************************************************************************)
(* Key / credit / quota ledger of the mkapi-v2 gateway.                    *)
(*                                                                         *)
(* The repository holds two builds of the same gateway: app.py keeps the   *)
(* key records and the request log in SQLite tables (variant "server"),    *)
(* app_serverless.py keeps them in process-global containers (variant      *)
(* "serverless").  Both are FastAPI applications whose handlers are        *)
(* coroutines run by one event loop: a handler runs without interruption   *)
(* from one `await` to the next, so each action below is the code between  *)
(* two awaits.  The only await of a metered handler is the upstream HTTP   *)
(* call.                                                                   *)
(*                                                                         *)
(* Time is counted in UTC days (now); the payload of a request (prompt,    *)
(* response_time, key name) has no effect on the ledger and is left out.   *)
(***************************************************************************)
EXTENDS Integers, Sequences, FiniteSets, TLC

VARIABLES
    variant,    \* which build runs: "server" (app.py) or "serverless"
    now,        \* datetime.utcnow() / CURRENT_TIMESTAMP, in whole UTC days
    api_keys,   \* api_keys table / API_KEYS_STORAGE: token -> record
    logs,       \* request_logs table / REQUEST_LOGS_STORAGE, arrival order
    log_seq,    \* AUTOINCREMENT counter of request_logs.id (server only)
    minted,     \* number of tokens generate_api_key() has returned so far
    req,        \* per worker: the handler suspended at its upstream await
    reply,      \* the last HTTP response sent: operation, key, status
    ledger,     \* history: per token, credits issued / adjusted / charged
    ops         \* number of client and admin calls made so far

vars ==
    <<variant, now, api_keys, logs, log_seq, minted, req, reply, ledger, ops>>

---------------------------------------------------------------------------
(* Bounds of the model.                                                    *)

NumTokens ==
    2

NumProcs ==
    2

MaxDay ==
    1

MaxOps ==
    3

(* Program constants.                                                      *)

\* REQUEST_LOGS_STORAGE keeps the last 1000 entries (app_serverless.py:92);
\* the retention window is scaled down so that trimming happens within
\* MaxOps operations.
MaxLogs ==
    2

\* timedelta(days=365) of admin_generate_key / init_storage
DaysValid ==
    365

\* the key created by init_storage (app_serverless.py:34-47)
DefaultCredits ==
    50

DefaultDailyLimit ==
    30

Tokens ==
    1 .. NumTokens

Procs ==
    1 .. NumProcs

Variants ==
    {"server", "serverless"}

NoToken ==
    0

\* last_used = None / NULL
NoTime ==
    0 - 1

FreeEndpoints ==
    {"/text", "/image", "/qr", "/voice"}

PaidEndpoints ==
    {"/ffinfo", "/num", "/video"}

Endpoints ==
    FreeEndpoints \cup PaidEndpoints

\* inputs of the admin operations
DailyLimitInputs ==
    {1, 2}

InitialCreditInputs ==
    {0 - 1, 2, 5}

AddCreditInputs ==
    {0 - 2, 5}

---------------------------------------------------------------------------
(* Pure helpers: the utility functions of both builds.                     *)

\* variant of Cost with one price for every paid endpoint
Cost_flat(ep) ==
    IF ep \in {"/ffinfo", "/video", "/num"} THEN 1 ELSE 0

\* credits_needed passed to check_credits and use_credits by each handler
Cost(ep) ==
    CASE ep = "/ffinfo" -> 1
      [] ep = "/video" -> 2
      [] ep = "/num" -> 5
      [] OTHER -> 0

\* variant of NewKey that ignores the initial credits asked for
NewKey_empty(limit, credits, t) ==
    [ credits |-> 0,
      daily_limit |-> limit,
      daily_requests |-> 0,
      total_requests |-> 0,
      is_active |-> TRUE,
      created_at |-> t,
      last_reset |-> t,
      last_used |-> NoTime,
      expires_at |-> t + DaysValid ]

\* the row inserted by admin_generate_key / init_storage
NewKey(limit, credits, t) ==
    [ credits |-> credits,
      daily_limit |-> limit,
      daily_requests |-> 0,
      total_requests |-> 0,
      is_active |-> TRUE,
      created_at |-> t,
      last_reset |-> t,
      last_used |-> NoTime,
      expires_at |-> t + DaysValid ]

\* SELECT * FROM api_keys WHERE key = ? AND is_active = 1 (server);
\* api_key in API_KEYS_STORAGE (serverless)
ValidKey(v, ks, k) ==
    IF v = "server"
    THEN k \in DOMAIN ks /\ ks[k].is_active
    ELSE k \in DOMAIN ks

\* variant of check_credits that demands more than the cost
check_credits_strict(ks, k, credits_needed) ==
    IF k \notin DOMAIN ks THEN FALSE
    ELSE IF ~ks[k].is_active THEN FALSE
    ELSE ks[k].credits > credits_needed

check_credits(ks, k, credits_needed) ==
    IF k \notin DOMAIN ks THEN FALSE
    ELSE IF ~ks[k].is_active THEN FALSE
    ELSE ks[k].credits >= credits_needed

\* variant of use_credits that takes one credit whatever the cost
use_credits_flat(ks, k, credits_used) ==
    IF k \in DOMAIN ks
    THEN [ks EXCEPT ![k].credits = @ - 1]
    ELSE ks

use_credits(ks, k, credits_used) ==
    IF k \in DOMAIN ks
    THEN [ks EXCEPT ![k].credits = @ - credits_used]
    ELSE ks

\* variant of update_usage whose update has no WHERE clause: the request is
\* counted on its key and last_used is stamped on every key
update_usage_all(ks, k, t) ==
    IF k \in DOMAIN ks
    THEN [x \in DOMAIN ks |->
            IF x = k
            THEN [ks[x] EXCEPT !.total_requests = @ + 1,
                               !.daily_requests = @ + 1,
                               !.last_used = t]
            ELSE [ks[x] EXCEPT !.last_used = t]]
    ELSE ks

update_usage(ks, k, t) ==
    IF k \in DOMAIN ks
    THEN [ks EXCEPT ![k].total_requests = @ + 1,
                    ![k].daily_requests = @ + 1,
                    ![k].last_used = t]
    ELSE ks

\* variant of log_request whose trimming pops the newest entry (pop())
\* instead of the oldest (pop(0))
log_request_popping_last(v, lg, seq, k, ep, credits_used, t) ==
    LET entry(i) == [ id |-> i, api_key |-> k, endpoint |-> ep,
                      credits_used |-> credits_used, created_at |-> t ]
    IN  IF v = "server"
        THEN Append(lg, entry(seq + 1))
        ELSE LET a == Append(lg, entry(Len(lg) + 1))
             IN  IF Len(a) > MaxLogs THEN SubSeq(a, 1, Len(a) - 1) ELSE a

\* the log after log_request: the server build inserts a row whose id is
\* the next AUTOINCREMENT value, the serverless build appends with
\* id = len + 1 and drops the oldest entry beyond the retention window
log_request(v, lg, seq, k, ep, credits_used, t) ==
    LET entry(i) == [ id |-> i, api_key |-> k, endpoint |-> ep,
                      credits_used |-> credits_used, created_at |-> t ]
    IN  IF v = "server"
        THEN Append(lg, entry(seq + 1))
        ELSE LET a == Append(lg, entry(Len(lg) + 1))
             IN  IF Len(a) > MaxLogs THEN Tail(a) ELSE a

NextLogSeq(v, seq) ==
    IF v = "server" THEN seq + 1 ELSE seq

\* handlers that suspend at an upstream HTTP call before they meter
CallsUpstream(v, ep) ==
    IF v = "server"
    THEN ep \in {"/text", "/image", "/qr", "/num", "/video"}
    ELSE ep \in {"/text", "/num", "/video"}

\* handlers whose success path reaches update_usage and log_request: in
\* the server build /image and /voice return from inside the try block
Metered(v, ep) ==
    IF v = "server" THEN ep \notin {"/image", "/voice"} ELSE TRUE

\* number of log entries of key k
RECURSIVE LogCount(_, _)
LogCount(lg, k) ==
    IF lg = <<>> THEN 0
    ELSE (IF Head(lg).api_key = k THEN 1 ELSE 0) + LogCount(Tail(lg), k)

\* today_requests of check_api_usage / admin_list_keys
RECURSIVE TodayRequests(_, _, _)
TodayRequests(lg, k, today) ==
    IF lg = <<>> THEN 0
    ELSE (IF Head(lg).api_key = k /\ Head(lg).created_at >= today
          THEN 1 ELSE 0) + TodayRequests(Tail(lg), k, today)

\* total_credits_used of check_api_usage / admin_list_keys
RECURSIVE CreditsUsed(_, _)
CreditsUsed(lg, k) ==
    IF lg = <<>> THEN 0
    ELSE (IF Head(lg).api_key = k THEN Head(lg).credits_used ELSE 0)
           + CreditsUsed(Tail(lg), k)

\* the body returned by /api_key for an existing key; today_start is the
\* beginning of the current UTC day
UsageReport(ks, lg, k, today_start) ==
    LET today_requests == TodayRequests(lg, k, today_start)
        left == ks[k].daily_limit - today_requests
    IN  [ is_active |-> ks[k].is_active,
          total_requests |-> ks[k].total_requests,
          daily_used |-> today_requests,
          daily_limit |-> ks[k].daily_limit,
          remaining_today |-> IF left > 0 THEN left ELSE 0,
          available |-> ks[k].credits,
          total_used |-> CreditsUsed(lg, k),
          created_at |-> ks[k].created_at,
          last_used |-> ks[k].last_used ]

\* one element of "keys" in the body of /admin/listapi
KeyStats(ks, lg, k, today_start) ==
    [ key |-> k,
      is_active |-> ks[k].is_active,
      total_requests |-> ks[k].total_requests,
      daily_used |-> TodayRequests(lg, k, today_start),
      daily_limit |-> ks[k].daily_limit,
      credits_available |-> ks[k].credits,
      credits_used |-> CreditsUsed(lg, k),
      created_at |-> ks[k].created_at,
      last_used |-> ks[k].last_used,
      expires_at |-> ks[k].expires_at ]

\* the orders in which /admin/listapi may return the keys.  Tokens are
\* numbered in the order of their issuance, which is the order of the rows
\* of the dict the serverless build iterates over; the server build sorts
\* by created_at DESC, which leaves the order of keys created at the same
\* time to the database
ListOrders(v, ks) ==
    LET n == Cardinality(DOMAIN ks)
        perms == {q \in [1 .. n -> DOMAIN ks] :
                     \A i, j \in 1 .. n : i # j => q[i] # q[j]}
    IN  IF v = "server"
        THEN {q \in perms :
                 \A i, j \in 1 .. n :
                     i < j => ks[q[i]].created_at >= ks[q[j]].created_at}
        ELSE {q \in perms : \A i, j \in 1 .. n : i < j => q[i] < q[j]}

\* SUM(total_requests) over the key records in S
RECURSIVE SumRequests(_, _)
SumRequests(ks, S) ==
    IF S = {} THEN 0
    ELSE LET k == CHOOSE x \in S : TRUE
         IN  ks[k].total_requests + SumRequests(ks, S \ {k})

\* SUM(credits_used) over the whole log
RECURSIVE SumCreditsUsed(_)
SumCreditsUsed(lg) ==
    IF lg = <<>> THEN 0
    ELSE Head(lg).credits_used + SumCreditsUsed(Tail(lg))

\* the log entries written since today_start
LogsSince(lg, today_start) ==
    SelectSeq(lg, LAMBDA e : e.created_at >= today_start)

\* "system_stats" of /admin/stats
SystemStats(ks, lg, today_start) ==
    LET today == LogsSince(lg, today_start)
    IN  [ total_api_keys |-> Cardinality(DOMAIN ks),
          active_keys |-> Cardinality({k \in DOMAIN ks : ks[k].is_active}),
          total_requests_all_time |-> SumRequests(ks, DOMAIN ks),
          total_credits_used |-> SumCreditsUsed(lg),
          requests_today |-> Len(today) ]

\* LIMIT 5 / [:5] of the top-users query
TopK ==
    5

\* position of the first entry of key k in the log lg
FirstSeen(lg, k) ==
    CHOOSE i \in 1 .. Len(lg) :
        /\ lg[i].api_key = k
        /\ \A j \in 1 .. i - 1 : lg[j].api_key # k

\* the values "top_users_today" of /admin/stats may take.  The serverless
\* build counts into a dict in log order and sorts it with a stable sort
\* by descending count; the server build runs GROUP BY api_key ORDER BY
\* request_count DESC, which leaves the order of equal counts to the
\* database
TopUsers(v, lg, today_start) ==
    LET today == LogsSince(lg, today_start)
        users == {today[i].api_key : i \in 1 .. Len(today)}
        n == Cardinality(users)
        count(k) == LogCount(today, k)
        sorted == {q \in [1 .. n -> users] :
                      /\ \A i, j \in 1 .. n : i # j => q[i] # q[j]
                      /\ \A i, j \in 1 .. n :
                            i < j => count(q[i]) >= count(q[j])}
        stable == {q \in sorted :
                      \A i, j \in 1 .. n :
                          (i < j /\ count(q[i]) = count(q[j]))
                              => FirstSeen(today, q[i]) < FirstSeen(today, q[j])}
        top(q) == [i \in 1 .. (IF n > TopK THEN TopK ELSE n) |->
                      [api_key |-> q[i], requests |-> count(q[i])]]
    IN  {top(q) : q \in IF v = "server" THEN sorted ELSE stable}

---------------------------------------------------------------------------
(* State after construction.                                               *)

\* adjusted (history): /admin/addcredits ran on the request's key while the
\* request was suspended
Idle ==
    [pc |-> "idle", api_key |-> NoToken, endpoint |-> "", adjusted |-> FALSE]

NoReply ==
    [op |-> "", api_key |-> NoToken, status |-> 0]

\* issued: initial credits; added, adds: sum and number of admin
\* adjustments; spent: sum of the costs of the completed paid requests;
\* raced: a paid request completed that an admin adjustment had overlapped
NoLedger ==
    [issued |-> 0, added |-> 0, adds |-> 0, spent |-> 0, raced |-> FALSE]

\* init_db leaves both tables empty; init_storage creates one default key
Init ==
    /\ variant \in Variants
    /\ now = 0
    /\ api_keys = IF variant = "server"
                  THEN <<>>
                  ELSE (1 :> NewKey(DefaultDailyLimit, DefaultCredits, 0))
    /\ logs = <<>>
    /\ log_seq = 0
    /\ minted = IF variant = "server" THEN 0 ELSE 1
    /\ req = [p \in Procs |-> Idle]
    /\ reply = NoReply
    /\ ops = 0
    /\ ledger = [t \in Tokens |->
                   IF variant = "serverless" /\ t = 1
                   THEN [NoLedger EXCEPT !.issued = DefaultCredits]
                   ELSE NoLedger]

\* the store [api_keys, logs, log_seq] that build v leaves when it serves
\* one request of ep on key k from store st with no other request in
\* between; ok is the outcome of the upstream call, t the time
ServeAlone(v, st, ep, k, ok, t) ==
    LET ks == st.api_keys
        granted ==
            IF ep \in PaidEndpoints
            THEN /\ check_credits(ks, k, Cost(ep))
                 /\ (v = "serverless" \/ ep = "/ffinfo") => ValidKey(v, ks, k)
            ELSE ValidKey(v, ks, k)
    IN  IF ~granted \/ (CallsUpstream(v, ep) /\ ~ok) \/ ~Metered(v, ep)
        THEN st
        ELSE [ api_keys |-> update_usage(use_credits(ks, k, Cost(ep)), k, t),
               logs |-> log_request(v, st.logs, st.log_seq, k, ep, Cost(ep), t),
               log_seq |-> NextLogSeq(v, st.log_seq) ]

---------------------------------------------------------------------------
(* Metered handlers.                                                       *)

\* one more call arrives from a client or the admin; at most MaxOps do
Call ==
    /\ ops < MaxOps
    /\ ops' = ops + 1

Respond(op, k, code) ==
    reply' = [op |-> op, api_key |-> k, status |-> code]

\* variant of Reject that counts the rejected request against the key
Reject_counting(op, k, code) ==
    /\ Respond(op, k, code)
    /\ api_keys' = update_usage(api_keys, k, now)
    /\ UNCHANGED <<variant, now, logs, log_seq, minted, req, ledger>>

\* raise HTTPException(status_code = code) before any side effect
Reject(op, k, code) ==
    /\ Respond(op, k, code)
    /\ UNCHANGED <<variant, now, api_keys, logs, log_seq, minted, req, ledger>>

\* variant of Await that deducts the cost before the upstream call
Await_charging(p, ep, k) ==
    /\ req' = [req EXCEPT ![p] = [pc |-> "upstream", api_key |-> k,
                                  endpoint |-> ep, adjusted |-> FALSE]]
    /\ api_keys' = use_credits(api_keys, k, Cost(ep))
    /\ UNCHANGED <<variant, now, logs, log_seq, minted, reply, ledger>>

\* the handler reaches `await client.get(...)`
Await(p, ep, k) ==
    /\ req' = [req EXCEPT ![p] = [pc |-> "upstream", api_key |-> k,
                                  endpoint |-> ep, adjusted |-> FALSE]]
    /\ UNCHANGED <<variant, now, api_keys, logs, log_seq, minted, reply,
                   ledger>>

\* history of what a completed paid request was charged
Charged(k, c, overlapped) ==
    IF k \in DOMAIN api_keys
    THEN [ledger EXCEPT ![k].spent = @ + c,
                        ![k].raced = @ \/ overlapped]
    ELSE ledger

\* variant of CommitPaid that takes the request of a dropped log entry off
\* the counter of its key, to keep the counter equal to the log
CommitPaid_rebalancing(ep, k, overlapped) ==
    /\ api_keys' =
          LET ks == update_usage(use_credits(api_keys, k, Cost(ep)), k, now)
          IN  IF variant = "serverless" /\ Len(logs) >= MaxLogs
              THEN [ks EXCEPT ![Head(logs).api_key].total_requests = @ - 1]
              ELSE ks
    /\ logs' = log_request(variant, logs, log_seq, k, ep, Cost(ep), now)
    /\ log_seq' = NextLogSeq(variant, log_seq)
    /\ ledger' = Charged(k, Cost(ep), overlapped)
    /\ Respond(ep, k, 200)

\* "Deduct credits and log request": use_credits; update_usage; log_request
\* of the paid handlers, then the response
CommitPaid(ep, k, overlapped) ==
    /\ api_keys' = update_usage(use_credits(api_keys, k, Cost(ep)), k, now)
    /\ logs' = log_request(variant, logs, log_seq, k, ep, Cost(ep), now)
    /\ log_seq' = NextLogSeq(variant, log_seq)
    /\ ledger' = Charged(k, Cost(ep), overlapped)
    /\ Respond(ep, k, 200)

\* variant of CommitFree that takes one credit for a free request
CommitFree_charging(ep, k) ==
    /\ api_keys' = update_usage(use_credits(api_keys, k, 1), k, now)
    /\ logs' = log_request(variant, logs, log_seq, k, ep, 0, now)
    /\ log_seq' = NextLogSeq(variant, log_seq)
    /\ ledger' = ledger
    /\ Respond(ep, k, 200)

\* "Update usage and log request (0 credits)" of the free handlers
CommitFree(ep, k) ==
    /\ api_keys' = update_usage(api_keys, k, now)
    /\ logs' = log_request(variant, logs, log_seq, k, ep, 0, now)
    /\ log_seq' = NextLogSeq(variant, log_seq)
    /\ ledger' = ledger
    /\ Respond(ep, k, 200)

\* a handler that returns before it reaches update_usage / log_request
ReturnEarly(ep, k) ==
    /\ UNCHANGED <<api_keys, logs, log_seq, ledger>>
    /\ Respond(ep, k, 200)

Commit(ep, k, overlapped) ==
    IF ~Metered(variant, ep) THEN ReturnEarly(ep, k)
    ELSE IF ep \in PaidEndpoints THEN CommitPaid(ep, k, overlapped)
    ELSE CommitFree(ep, k)

\* /ffinfo: no await, the whole handler is one step
ffinfo_redirect(k) ==
    /\ Call
    /\ IF ~check_credits(api_keys, k, Cost("/ffinfo"))
       THEN Reject("/ffinfo", k, 402)
       ELSE IF ~ValidKey(variant, api_keys, k)
       THEN Reject("/ffinfo", k, 401)
       ELSE /\ CommitPaid("/ffinfo", k, FALSE)
            /\ UNCHANGED <<variant, now, minted, req>>

\* /num and /video: check_credits, (serverless: key lookup), upstream call
\* the event loop runs a new request in a coroutine of its own; requests
\* are interchangeable, so a new one takes the first slot that is free
FreeSlot(p) ==
    /\ req[p].pc = "idle"
    /\ \A q \in Procs : q < p => req[q].pc # "idle"

PaidBegin(p, ep, k) ==
    /\ FreeSlot(p)
    /\ IF ~check_credits(api_keys, k, Cost(ep))
       THEN Reject(ep, k, 402)
       ELSE IF variant = "serverless" /\ k \notin DOMAIN api_keys
       THEN Reject(ep, k, 401)
       ELSE Await(p, ep, k)

number_service(p, k) ==
    Call /\ PaidBegin(p, "/num", k)

video_generation(p, k) ==
    Call /\ PaidBegin(p, "/video", k)

\* free handlers: key lookup, then the upstream call where there is one,
\* otherwise straight to the end of the handler
FreeBegin(p, ep, k) ==
    /\ IF ~ValidKey(variant, api_keys, k)
       THEN Reject(ep, k, 401)
       ELSE IF CallsUpstream(variant, ep)
       THEN FreeSlot(p) /\ Await(p, ep, k)
       ELSE /\ Commit(ep, k, FALSE)
            /\ UNCHANGED <<variant, now, minted, req>>

text_generation(p, k) ==
    Call /\ FreeBegin(p, "/text", k)

image_generation(p, k) ==
    Call /\ FreeBegin(p, "/image", k)

qr_generation(p, k) ==
    Call /\ FreeBegin(p, "/qr", k)

voice_generation(p, k) ==
    Call /\ FreeBegin(p, "/voice", k)

\* the upstream call returned a good response: the rest of the handler
UpstreamOk(p) ==
    /\ req[p].pc = "upstream"
    /\ Commit(req[p].endpoint, req[p].api_key, req[p].adjusted)
    /\ req' = [req EXCEPT ![p] = Idle]
    /\ UNCHANGED <<variant, now, minted, ops>>

\* variant of UpstreamFail that logs the failed request with 0 credits
UpstreamFail_logging(p) ==
    /\ req[p].pc = "upstream"
    /\ req' = [req EXCEPT ![p] = Idle]
    /\ logs' = log_request(variant, logs, log_seq, req[p].api_key,
                           req[p].endpoint, 0, now)
    /\ log_seq' = NextLogSeq(variant, log_seq)
    /\ Respond(req[p].endpoint, req[p].api_key, 500)
    /\ UNCHANGED <<variant, now, api_keys, minted, ledger, ops>>

\* the upstream call raised (timeout, bad status, malformed body) or the
\* request was cancelled: the handler leaves through the exception
UpstreamFail(p) ==
    /\ req[p].pc = "upstream"
    /\ req' = [req EXCEPT ![p] = Idle]
    /\ Respond(req[p].endpoint, req[p].api_key, 500)
    /\ UNCHANGED <<variant, now, api_keys, logs, log_seq, minted, ledger, ops>>

\* a successful response that carries a body
RespondWith(op, k, body) ==
    reply' = [op |-> op, api_key |-> k, status |-> 200, body |-> body]

\* variant of check_api_usage that stamps last_used on the key it reports
check_api_usage_touching(k) ==
    /\ Call
    /\ IF k \notin DOMAIN api_keys
       THEN Reject("/api_key", k, 404)
       ELSE /\ RespondWith("/api_key", k, UsageReport(api_keys, logs, k, now))
            /\ api_keys' = [api_keys EXCEPT ![k].last_used = now]
            /\ UNCHANGED <<variant, now, logs, log_seq, minted, req, ledger>>

\* /api_key: reads the key record and the log, writes nothing
check_api_usage(k) ==
    /\ Call
    /\ IF k \notin DOMAIN api_keys
       THEN Reject("/api_key", k, 404)
       ELSE /\ RespondWith("/api_key", k, UsageReport(api_keys, logs, k, now))
            /\ UNCHANGED <<variant, now, api_keys, logs, log_seq, minted, req,
                           ledger>>

\* /health: the serverless build also reports the sizes of its two stores
health_check ==
    /\ Call
    /\ RespondWith("/health", NoToken,
          IF variant = "server"
          THEN [ status |-> "healthy", timestamp |-> now ]
          ELSE [ status |-> "healthy", timestamp |-> now,
                 api_keys_count |-> Cardinality(DOMAIN api_keys),
                 logs_count |-> Len(logs) ])
    /\ UNCHANGED <<variant, now, api_keys, logs, log_seq, minted, req, ledger>>

\* the UTC day changes
Midnight ==
    /\ Call
    /\ now < MaxDay
    /\ now' = now + 1
    /\ UNCHANGED <<variant, api_keys, logs, log_seq, minted, req, reply,
                   ledger>>

\* more than the validity period of a key goes by, so that every key
\* issued before is past its expires_at
YearPasses ==
    /\ Call
    /\ now <= MaxDay
    /\ now' = now + DaysValid + 1
    /\ UNCHANGED <<variant, api_keys, logs, log_seq, minted, req, reply,
                   ledger>>

---------------------------------------------------------------------------
(* Admin operations.  auth is the result of verify_admin.                  *)

\* history of an issued key
Issued(t, credits) ==
    [ledger EXCEPT ![t] = [NoLedger EXCEPT !.issued = credits]]

\* the key store with row t inserted or replaced
PutKey(ks, t, row) ==
    [x \in DOMAIN ks \cup {t} |-> IF x = t THEN row ELSE ks[x]]

\* /admin/generateapi; t is the token generate_api_key() returned.  The
\* server build inserts it under the UNIQUE constraint on api_keys.key
\* (IntegrityError -> 400), the serverless build assigns
\* API_KEYS_STORAGE[new_key].
admin_generate_key(auth, t, daily_limit, initial_credits) ==
    /\ Call
    /\ IF ~auth
       THEN Reject("/admin/generateapi", NoToken, 401)
       ELSE
         /\ minted' = IF t > minted THEN t ELSE minted
         /\ IF variant = "server" /\ t \in DOMAIN api_keys
            THEN /\ Respond("/admin/generateapi", t, 400)
                 /\ UNCHANGED <<api_keys, ledger>>
            ELSE /\ api_keys' = PutKey(api_keys, t,
                                   NewKey(daily_limit, initial_credits, now))
                 /\ ledger' = Issued(t, initial_credits)
                 /\ Respond("/admin/generateapi", t, 200)
         /\ UNCHANGED <<variant, now, logs, log_seq, req>>

\* /admin/listapi: the statistics of every key
admin_list_keys(auth) ==
    /\ Call
    /\ IF ~auth
       THEN Reject("/admin/listapi", NoToken, 401)
       ELSE /\ \E q \in ListOrders(variant, api_keys) :
                 RespondWith("/admin/listapi", NoToken,
                     [ total_keys |-> Len(q),
                       keys |-> [i \in 1 .. Len(q) |->
                                   KeyStats(api_keys, logs, q[i], now)] ])
            /\ UNCHANGED <<variant, now, api_keys, logs, log_seq, minted, req,
                           ledger>>

\* /admin/stats
admin_stats(auth) ==
    /\ Call
    /\ IF ~auth
       THEN Reject("/admin/stats", NoToken, 401)
       ELSE /\ \E r \in TopUsers(variant, logs, now) :
                 RespondWith("/admin/stats", NoToken,
                     [ system_stats |-> SystemStats(api_keys, logs, now),
                       top_users_today |-> r ])
            /\ UNCHANGED <<variant, now, api_keys, logs, log_seq, minted, req,
                           ledger>>

\* /admin/increaseapilimit (server build only)
admin_increase_limit(auth, k, new_limit) ==
    /\ variant = "server"
    /\ Call
    /\ IF ~auth
       THEN Reject("/admin/increaseapilimit", k, 401)
       ELSE IF k \notin DOMAIN api_keys
       THEN Reject("/admin/increaseapilimit", k, 404)
       ELSE /\ api_keys' = [api_keys EXCEPT ![k].daily_limit = new_limit]
            /\ Respond("/admin/increaseapilimit", k, 200)
            /\ UNCHANGED <<variant, now, logs, log_seq, minted, req, ledger>>

\* variant of add_credits that stores the amount instead of adding it
add_credits_overwrite(ks, k, credits_to_add) ==
    [ks EXCEPT ![k].credits = credits_to_add]

\* UPDATE api_keys SET credits = credits + ? / credits += credits_to_add
add_credits(ks, k, credits_to_add) ==
    [ks EXCEPT ![k].credits = @ + credits_to_add]

\* variant of admin_add_credits without the lookup of the key: the UPDATE
\* of a missing key matches no row and the call reports success
admin_add_credits_unchecked(auth, k, credits_to_add) ==
    /\ Call
    /\ IF ~auth
       THEN Reject("/admin/addcredits", k, 401)
       ELSE IF k \notin DOMAIN api_keys
       THEN Reject("/admin/addcredits", k, 200)
       ELSE /\ api_keys' = add_credits(api_keys, k, credits_to_add)
            /\ ledger' = [ledger EXCEPT ![k].added = @ + credits_to_add,
                                        ![k].adds = @ + 1]
            /\ req' = [p \in Procs |->
                         IF req[p].pc = "upstream" /\ req[p].api_key = k
                         THEN [req[p] EXCEPT !.adjusted = TRUE]
                         ELSE req[p]]
            /\ Respond("/admin/addcredits", k, 200)
            /\ UNCHANGED <<variant, now, logs, log_seq, minted>>

\* /admin/addcredits
admin_add_credits(auth, k, credits_to_add) ==
    /\ Call
    /\ IF ~auth
       THEN Reject("/admin/addcredits", k, 401)
       ELSE IF k \notin DOMAIN api_keys
       THEN Reject("/admin/addcredits", k, 404)
       ELSE /\ api_keys' = add_credits(api_keys, k, credits_to_add)
            /\ ledger' = [ledger EXCEPT ![k].added = @ + credits_to_add,
                                        ![k].adds = @ + 1]
            /\ req' = [p \in Procs |->
                         IF req[p].pc = "upstream" /\ req[p].api_key = k
                         THEN [req[p] EXCEPT !.adjusted = TRUE]
                         ELSE req[p]]
            /\ Respond("/admin/addcredits", k, 200)
            /\ UNCHANGED <<variant, now, logs, log_seq, minted>>

\* /admin/resetapilimit (server build only)
admin_reset_limit(auth, k) ==
    /\ variant = "server"
    /\ Call
    /\ IF ~auth
       THEN Reject("/admin/resetapilimit", k, 401)
       ELSE IF k \notin DOMAIN api_keys
       THEN Reject("/admin/resetapilimit", k, 404)
       ELSE /\ api_keys' = [api_keys EXCEPT ![k].daily_requests = 0,
                                            ![k].last_reset = now]
            /\ Respond("/admin/resetapilimit", k, 200)
            /\ UNCHANGED <<variant, now, logs, log_seq, minted, req, ledger>>

\* DELETE FROM request_logs WHERE api_key = ?
PurgeLogs(lg, k) ==
    SelectSeq(lg, LAMBDA e : e.api_key # k)

\* variant of admin_delete_key that does not look at the credentials
admin_delete_key_open(auth, k) ==
    /\ variant = "server"
    /\ Call
    /\ IF k \notin DOMAIN api_keys
       THEN Reject("/admin/deleteapi", k, 404)
       ELSE /\ logs' = PurgeLogs(logs, k)
            /\ api_keys' = [x \in DOMAIN api_keys \ {k} |-> api_keys[x]]
            /\ Respond("/admin/deleteapi", k, 200)
            /\ UNCHANGED <<variant, now, log_seq, minted, req, ledger>>

\* /admin/deleteapi (server build only): both deletes commit together
admin_delete_key(auth, k) ==
    /\ variant = "server"
    /\ Call
    /\ IF ~auth
       THEN Reject("/admin/deleteapi", k, 401)
       ELSE IF k \notin DOMAIN api_keys
       THEN Reject("/admin/deleteapi", k, 404)
       ELSE /\ logs' = PurgeLogs(logs, k)
            /\ api_keys' = [x \in DOMAIN api_keys \ {k} |-> api_keys[x]]
            /\ Respond("/admin/deleteapi", k, 200)
            /\ UNCHANGED <<variant, now, log_seq, minted, req, ledger>>

---------------------------------------------------------------------------
(* The gateway: any request on any token, any admin call; generate_api_key *)
(* returns a token it has not returned before (24 random bytes).  The      *)
(* upstream service answers the suspended handlers at any time.            *)

Next ==
    \/ Midnight
    \/ YearPasses
    \/ \E k \in Tokens : ffinfo_redirect(k)
    \/ \E p \in Procs, k \in Tokens : number_service(p, k)
    \/ \E p \in Procs, k \in Tokens : video_generation(p, k)
    \/ \E p \in Procs, k \in Tokens : text_generation(p, k)
    \/ \E p \in Procs, k \in Tokens : image_generation(p, k)
    \/ \E p \in Procs, k \in Tokens : qr_generation(p, k)
    \/ \E p \in Procs, k \in Tokens : voice_generation(p, k)
    \/ \E p \in Procs : UpstreamOk(p)
    \/ \E p \in Procs : UpstreamFail(p)
    \/ \E k \in Tokens : check_api_usage(k)
    \/ health_check
    \/ \E auth \in BOOLEAN, l \in DailyLimitInputs, c \in InitialCreditInputs :
          minted < NumTokens /\ admin_generate_key(auth, minted + 1, l, c)
    \/ \E auth \in BOOLEAN, k \in Tokens, l \in DailyLimitInputs :
          admin_increase_limit(auth, k, l)
    \/ \E auth \in BOOLEAN, k \in Tokens, a \in AddCreditInputs :
          admin_add_credits(auth, k, a)
    \/ \E auth \in BOOLEAN : admin_list_keys(auth)
    \/ \E auth \in BOOLEAN : admin_stats(auth)
    \/ \E auth \in BOOLEAN, k \in Tokens : admin_reset_limit(auth, k)
    \/ \E auth \in BOOLEAN, k \in Tokens : admin_delete_key(auth, k)

Spec ==
    Init /\ [][Next]_vars

\* generate_api_key() returns a token that is already in the key store
admin_generate_key_collision ==
    \E t \in DOMAIN api_keys, l \in DailyLimitInputs,
       c \in InitialCreditInputs :
        admin_generate_key(TRUE, t, l, c)

\* the gateway when the token generator is not assumed collision-free
NextCollision ==
    \/ Next
    \/ admin_generate_key_collision

SpecCollision ==
    Init /\ [][NextCollision]_vars

\* the gateway after the admin has issued some keys on day 0, each with
\* the credits of one /num request
InitIssued ==
    /\ variant \in Variants
    /\ now = 0
    /\ \E n \in 1 .. NumTokens :
          /\ minted = n
          /\ api_keys = [t \in 1 .. n |->
                           IF variant = "serverless" /\ t = 1
                           THEN NewKey(DefaultDailyLimit, DefaultCredits, 0)
                           ELSE NewKey(2, 5, 0)]
          /\ ledger = [t \in Tokens |->
                         IF t > n THEN NoLedger
                         ELSE [NoLedger EXCEPT !.issued = api_keys[t].credits]]
    /\ logs = <<>>
    /\ log_seq = 0
    /\ req = [p \in Procs |-> Idle]
    /\ reply = NoReply
    /\ ops = 0

SpecIssued ==
    InitIssued /\ [][Next]_vars

\* no handler is suspended at its upstream call
Quiet ==
    \A p \in Procs : req[p].pc = "idle"

\* the gateway driven by a sequence of requests that do not overlap: a
\* request arrives only when the one before has been answered
NextSerial ==
    \/ Quiet /\ Midnight
    \/ Quiet /\ \E k \in Tokens : ffinfo_redirect(k)
    \/ Quiet /\ \E p \in Procs, k \in Tokens : number_service(p, k)
    \/ Quiet /\ \E p \in Procs, k \in Tokens : video_generation(p, k)
    \/ Quiet /\ \E p \in Procs, k \in Tokens : text_generation(p, k)
    \/ Quiet /\ \E p \in Procs, k \in Tokens : image_generation(p, k)
    \/ Quiet /\ \E p \in Procs, k \in Tokens : qr_generation(p, k)
    \/ Quiet /\ \E p \in Procs, k \in Tokens : voice_generation(p, k)
    \/ \E p \in Procs : UpstreamOk(p)
    \/ \E p \in Procs : UpstreamFail(p)

SpecSerial ==
    InitIssued /\ [][NextSerial]_vars

\* the store after n requests of /ffinfo on token 1, one after the other
RECURSIVE AfterRequests(_, _)
AfterRequests(v, n) ==
    IF n = 0
    THEN [ api_keys |-> IF v = "server"
                        THEN <<>>
                        ELSE (1 :> NewKey(DefaultDailyLimit, DefaultCredits, 0)),
           logs |-> <<>>,
           log_seq |-> 0 ]
    ELSE ServeAlone(v, AfterRequests(v, n - 1), "/ffinfo", 1, TRUE, 0)

\* the gateway after up to MaxLogs requests of /ffinfo on token 1 on day 0:
\* the in-memory build has served them on its default key, the server
\* build, which has no key yet, has refused them
InitLogged ==
    /\ variant \in Variants
    /\ now = 0
    /\ \E n \in 0 .. MaxLogs :
          /\ api_keys = AfterRequests(variant, n).api_keys
          /\ logs = AfterRequests(variant, n).logs
          /\ log_seq = AfterRequests(variant, n).log_seq
          /\ reply = IF n = 0 THEN NoReply
                     ELSE [op |-> "/ffinfo", api_key |-> 1,
                           status |-> IF variant = "server" THEN 402 ELSE 200]
          /\ ledger = [t \in Tokens |->
                         IF variant = "serverless" /\ t = 1
                         THEN [NoLedger EXCEPT !.issued = DefaultCredits,
                                               !.spent = n * Cost("/ffinfo")]
                         ELSE NoLedger]
    /\ minted = IF variant = "server" THEN 0 ELSE 1
    /\ req = [p \in Procs |-> Idle]
    /\ ops = 0

SpecLogged ==
    InitLogged /\ [][Next]_vars

---------------------------------------------------------------------------
(* Steps of a request, as seen from the state before and after.            *)

\* handler p resumes after its upstream call and ends with status code
Completes(p, code) ==
    /\ req[p].pc = "upstream"
    /\ req'[p].pc = "idle"
    /\ reply' = [op |-> req[p].endpoint, api_key |-> req[p].api_key,
                 status |-> code]

\* a call of ep with key k is admitted and suspends at its upstream call
Admitted(p, ep, k) ==
    /\ req[p].pc = "idle"
    /\ req'[p].pc = "upstream"
    /\ req'[p].endpoint = ep
    /\ req'[p].api_key = k

\* a call of ep with key k runs to its response without suspending
Answered(ep, k, code) ==
    /\ ops' = ops + 1
    /\ now' = now
    /\ req' = req
    /\ reply' = [op |-> ep, api_key |-> k, status |-> code]

\* a request on key k is counted by update_usage in this step
Counted(k) ==
    /\ k \in DOMAIN api_keys
    /\ k \in DOMAIN api_keys'
    /\ api_keys'[k].total_requests = api_keys[k].total_requests + 1

InFlight(k) ==
    {p \in Procs : req[p].pc = "upstream" /\ req[p].api_key = k}

---------------------------------------------------------------------------
(* Credit ledger.                                                          *)

\* C1: a key issued with non-negative credits and never adjusted by the
\* admin has credits >= 0 in every state reached by metered requests.
C1_CreditsNeverNegative ==
    \A k \in DOMAIN api_keys :
        (ledger[k].issued >= 0 /\ ledger[k].adds = 0)
            => api_keys[k].credits >= 0

\* C2: no overselling: check and deduction of a paid request are one atomic
\* step with respect to the other requests on the key, so the balance still
\* covers the cost at the moment a granted request is charged.
C2_NoOverselling ==
    [][\A p \in Procs :
          LET k == req[p].api_key
              ep == req[p].endpoint
          IN  (/\ Completes(p, 200)
               /\ ep \in PaidEndpoints
               /\ k \in DOMAIN api_keys
               /\ ledger[k].adds = 0)
                  => api_keys[k].credits >= Cost(ep)]_vars

\* C3: without admin adjustment, the balance of a key is its initial credits
\* minus the costs of the paid requests that were granted and completed;
\* denied and failed requests contribute nothing.
C3_BalanceIsInitialMinusSpent ==
    \A k \in DOMAIN api_keys :
        ledger[k].adds = 0
            => api_keys[k].credits = ledger[k].issued - ledger[k].spent

\* a key that was charged and then saw a request denied or fail
C3_Witness ==
    \E k \in DOMAIN api_keys :
        /\ ledger[k].adds = 0
        /\ ledger[k].spent > 0
        /\ reply.api_key = k
        /\ reply.op \in PaidEndpoints
        /\ reply.status \in {402, 500}

\* C4: an admin add-credits that overlaps a paid request on the same key is
\* not lost: once both have completed the balance is the initial credits
\* plus what the admin added minus what the requests were charged.
C4_AddCreditsNotLost ==
    \A k \in DOMAIN api_keys :
        (ledger[k].raced /\ InFlight(k) = {})
            => api_keys[k].credits
                 = ledger[k].issued + ledger[k].added - ledger[k].spent

\* the request that the adjustment overlapped has just been charged
C4_Witness ==
    \E k \in DOMAIN api_keys :
        /\ ledger[k].raced
        /\ InFlight(k) = {}
        /\ ledger[k].adds > 0
        /\ reply = [op |-> reply.op, api_key |-> k, status |-> 200]
        /\ reply.op \in {"/num", "/video"}

---------------------------------------------------------------------------
(* Usage counters and the usage log.                                       *)

\* C5: for every existing key, total_requests equals the number of usage-log
\* entries of that key.
C5_TotalMatchesLog ==
    \A k \in DOMAIN api_keys :
        api_keys[k].total_requests = LogCount(logs, k)

\* C6: once daily_limit requests of a key have been granted in one UTC day,
\* no further request on that key is granted that day: a request is counted
\* only while fewer than daily_limit requests of the key were logged today.
C6_DailyQuotaEnforced ==
    [][\A k \in Tokens :
          Counted(k)
              => TodayRequests(logs, k, now) < api_keys[k].daily_limit]_vars

\* the key was neither used nor reset on the current day
FirstAccessToday(row) ==
    row.last_used < now /\ row.last_reset < now

\* C7: the first request counted after the UTC day changed starts the daily
\* counter afresh (it becomes 1), later requests of the day add one each.
C7_DailyCounterResets ==
    [][\A k \in Tokens :
          Counted(k)
              => api_keys'[k].daily_requests
                   = IF FirstAccessToday(api_keys[k])
                     THEN 1
                     ELSE api_keys[k].daily_requests + 1]_vars

\* C8: a paid request whose upstream call fails leaves every balance as it
\* was: neither its admission nor its failure changes a key record.
C8_FailedPaidRequestNotCharged ==
    [][\A p \in Procs :
          /\ (\E k \in Tokens, ep \in PaidEndpoints : Admitted(p, ep, k))
                => api_keys' = api_keys
          /\ (Completes(p, 500) /\ req[p].endpoint \in PaidEndpoints)
                => api_keys' = api_keys]_vars

\* a paid request on an existing key has just failed
C8_Witness ==
    /\ reply.status = 500
    /\ reply.op \in {"/num", "/video"}
    /\ reply.api_key \in DOMAIN api_keys
    /\ api_keys[reply.api_key].credits
         = ledger[reply.api_key].issued + ledger[reply.api_key].added

C10_ExactBalance ==
    [][\A k \in DOMAIN api_keys, ep \in PaidEndpoints :
          /\ Answered(ep, k, 402)
                => /\ api_keys[k].credits < Cost(ep)
                   /\ UNCHANGED <<api_keys, logs, log_seq>>
          /\ api_keys[k].credits < Cost(ep)
                => /\ \A p \in Procs : ~Admitted(p, ep, k)
                   /\ \A code \in {200, 401, 500} : ~Answered(ep, k, code)
          /\ (/\ api_keys[k].credits = Cost(ep)
              /\ \/ Answered(ep, k, 200)
                 \/ \E p \in Procs : Completes(p, 200)
                                       /\ req[p].endpoint = ep
                                       /\ req[p].api_key = k)
                => /\ k \in DOMAIN api_keys'
                   /\ api_keys'[k].credits = 0]_vars

\* a key was charged its whole balance and the next request for the same
\* endpoint has just been denied
C10_Witness ==
    \E k \in DOMAIN api_keys :
        /\ reply = [op |-> reply.op, api_key |-> k, status |-> 402]
        /\ reply.op \in PaidEndpoints
        /\ api_keys[k].credits = 0
        /\ logs # <<>>
        /\ logs[Len(logs)].api_key = k
        /\ logs[Len(logs)].endpoint = reply.op
        /\ ledger[k].spent = Cost(reply.op)

---------------------------------------------------------------------------
(* Authentication and denial.                                              *)

\* handler p resumes a request of ep on key k and ends with status code
CompletesFor(ep, k, code) ==
    \E p \in Procs :
        /\ Completes(p, code)
        /\ req[p].endpoint = ep
        /\ req[p].api_key = k

\* C11: a request to a free endpoint on a valid key is never turned away,
\* whatever the balance of the key, and neither its admission nor its
\* completion changes the balance.
C11_FreeEndpointsIgnoreBalance ==
    [][\A k \in DOMAIN api_keys, ep \in FreeEndpoints :
          api_keys[k].is_active
              => /\ \A code \in {401, 402, 404, 429} : ~Answered(ep, k, code)
                 /\ (\/ Answered(ep, k, 200)
                     \/ \E p \in Procs : Admitted(p, ep, k)
                     \/ CompletesFor(ep, k, 200))
                       => /\ k \in DOMAIN api_keys'
                          /\ api_keys'[k].credits = api_keys[k].credits]_vars

\* a free request has just been served on a key whose balance is 0
C11_Witness ==
    /\ reply.status = 200
    /\ reply.op \in FreeEndpoints
    /\ reply.api_key \in DOMAIN api_keys
    /\ api_keys[reply.api_key].credits = 0
    /\ LogCount(logs, reply.api_key) > 0

\* C12: a /api_key lookup that directly follows the issuance of a key with
\* initial_credits = c reports credits.available = c, usage.daily_used = 0
\* and usage.total_requests = 0.
C12_IssueThenLookup ==
    [][\A k \in Tokens :
          (/\ reply = [op |-> "/admin/generateapi", api_key |-> k,
                       status |-> 200]
           /\ reply'.op = "/api_key"
           /\ reply'.api_key = k)
              => /\ reply'.status = 200
                 /\ reply'.body.available = ledger[k].issued
                 /\ reply'.body.daily_used = 0
                 /\ reply'.body.total_requests = 0]_vars

\* the lookup of a key issued by /admin/generateapi and not used since
C12_Witness ==
    /\ reply.op = "/api_key"
    /\ reply.status = 200
    /\ reply.api_key > (IF variant = "server" THEN 0 ELSE 1)
    /\ ledger[reply.api_key].issued \in InitialCreditInputs
    /\ reply.body.available = ledger[reply.api_key].issued
    /\ api_keys[reply.api_key].last_used = NoTime
    /\ ledger[reply.api_key].adds = 0

\* C13: a metered request that presents a token absent from the key store
\* is answered 401 and nothing else (not admitted, not 402), and changes
\* neither the key store nor the log.
C13_UnknownKeyIs401 ==
    [][\A k \in Tokens \ DOMAIN api_keys, ep \in Endpoints :
          /\ \A p \in Procs : ~Admitted(p, ep, k)
          /\ \A code \in {200, 402, 404, 500} : ~Answered(ep, k, code)
          /\ Answered(ep, k, 401)
                => UNCHANGED <<api_keys, logs, log_seq>>]_vars

\* the key is inactive or its expiry date lies in the past
Lapsed(row) ==
    ~row.is_active \/ row.expires_at < now

\* C14: a metered request that presents an inactive or expired key is
\* rejected before the upstream call and before any metering side effect:
\* it is neither admitted to its upstream call nor served.
C14_LapsedKeyRejected ==
    [][\A k \in DOMAIN api_keys, ep \in Endpoints :
          Lapsed(api_keys[k])
              => /\ \A p \in Procs : ~Admitted(p, ep, k)
                 /\ ~Answered(ep, k, 200)]_vars

\* C15: a paid request denied for insufficient credits mutates nothing:
\* every key record (credits, total_requests, daily_requests, last_used)
\* and the usage log are the same after the 402 as before it.
C15_DenialMutatesNothing ==
    [][\A k \in Tokens, ep \in PaidEndpoints :
          Answered(ep, k, 402)
              => /\ api_keys' = api_keys
                 /\ logs' = logs
                 /\ log_seq' = log_seq
                 /\ ledger' = ledger]_vars

\* a key that still holds credits, but fewer than the endpoint costs, has
\* just been denied
C15_Witness ==
    /\ reply.status = 402
    /\ reply.op \in PaidEndpoints
    /\ reply.api_key \in DOMAIN api_keys
    /\ api_keys[reply.api_key].credits > 0
    /\ api_keys[reply.api_key].credits < Cost(reply.op)
    /\ api_keys[reply.api_key].last_used = NoTime

\* a call of any admin operation, auth being the outcome of verify_admin
AdminCall(auth) ==
    \/ \E l \in DailyLimitInputs, c \in InitialCreditInputs :
          minted < NumTokens /\ admin_generate_key(auth, minted + 1, l, c)
    \/ admin_list_keys(auth)
    \/ \E k \in Tokens, l \in DailyLimitInputs : admin_increase_limit(auth, k, l)
    \/ \E k \in Tokens, a \in AddCreditInputs : admin_add_credits(auth, k, a)
    \/ \E k \in Tokens : admin_reset_limit(auth, k)
    \/ \E k \in Tokens : admin_delete_key(auth, k)
    \/ admin_stats(auth)

\* C16: an admin operation called with credentials that fail verification
\* returns 401 and leaves the key store and the usage log unchanged.
C16_UnauthorizedAdminTouchesNothing ==
    [][AdminCall(FALSE)
          => /\ reply'.status = 401
             /\ api_keys' = api_keys
             /\ logs' = logs
             /\ log_seq' = log_seq]_vars

\* /admin/deleteapi has just been refused for a key that has log entries
C16_Witness ==
    /\ reply.op = "/admin/deleteapi"
    /\ reply.status = 401
    /\ reply.api_key \in DOMAIN api_keys
    /\ LogCount(logs, reply.api_key) > 0

---------------------------------------------------------------------------
(* Metering of the granted requests.                                       *)

\* C17: no dangling log: the api_key of every usage-log entry is a key of
\* the key store.
C17_NoDanglingLog ==
    \A i \in 1 .. Len(logs) : logs[i].api_key \in DOMAIN api_keys

\* the cost table of the specification
PriceList ==
    [ep \in Endpoints |->
        CASE ep = "/ffinfo" -> 1
          [] ep = "/video" -> 2
          [] ep = "/num" -> 5
          [] ep \in {"/text", "/image", "/qr", "/voice"} -> 0]

\* the step in which a request of ep on key k is served with status 200
Served(ep, k) ==
    Answered(ep, k, 200) \/ CompletesFor(ep, k, 200)

\* C18: a granted request deducts exactly the listed cost of its endpoint
\* from the balance of its key, and the usage-log entry it writes carries
\* the key, the endpoint and that same cost as credits_used.
C18_ExactCost ==
    [][\A k \in DOMAIN api_keys, ep \in Endpoints :
          Served(ep, k)
              => /\ k \in DOMAIN api_keys'
                 /\ api_keys'[k].credits = api_keys[k].credits - PriceList[ep]
                 /\ logs' # logs
                       => LET e == logs'[Len(logs')]
                          IN  /\ e.api_key = k
                              /\ e.endpoint = ep
                              /\ e.credits_used = PriceList[ep]]_vars

\* /video or /num has just been served, charged and logged
C18_Witness ==
    /\ reply.status = 200
    /\ reply.op \in {"/video", "/num"}
    /\ reply.api_key \in DOMAIN api_keys
    /\ logs # <<>>
    /\ logs[Len(logs)].endpoint = reply.op
    /\ logs[Len(logs)].credits_used = PriceList[reply.op]
    /\ api_keys[reply.api_key].credits
         = ledger[reply.api_key].issued - PriceList[reply.op]

\* C19: every successful request to a cost-zero endpoint increases the
\* daily_requests and the total_requests of its key by exactly one.
C19_FreeRequestsCounted ==
    [][\A k \in DOMAIN api_keys, ep \in FreeEndpoints :
          Served(ep, k)
              => /\ k \in DOMAIN api_keys'
                 /\ api_keys'[k].total_requests
                      = api_keys[k].total_requests + 1
                 /\ api_keys'[k].daily_requests
                      = api_keys[k].daily_requests + 1]_vars

\* C20: a request that is served with a successful response has appended,
\* in the step that returns the response, exactly one usage-log entry for
\* its key that carries the endpoint and the credits charged (the oldest
\* entry may leave the bounded log in the same step).
C20_SuccessIsLogged ==
    [][\A k \in Tokens, ep \in Endpoints :
          Served(ep, k)
              => /\ logs' # <<>>
                 /\ LET e == logs'[Len(logs')]
                    IN  /\ e.api_key = k
                        /\ e.endpoint = ep
                        /\ e.credits_used = PriceList[ep]
                        /\ \/ logs' = Append(logs, e)
                           \/ logs' = Tail(Append(logs, e))]_vars

---------------------------------------------------------------------------
(* Admin operations on the keys.                                           *)

\* C21: when /admin/resetapilimit succeeds on a key, the daily request
\* count of the key is zero afterwards and so is the daily usage that
\* /api_key reports for the key in the state reached.
C21_ResetZeroesDailyUsage ==
    [][\A k \in Tokens :
          reply' = [op |-> "/admin/resetapilimit", api_key |-> k,
                    status |-> 200]
              => /\ k \in DOMAIN api_keys'
                 /\ api_keys'[k].daily_requests = 0
                 /\ UsageReport(api_keys', logs', k, now').daily_used = 0]_vars

\* C22: a call of /admin/generateapi that passes verification never
\* returns an error and always returns a token that was not in the key
\* store before, also when the generator first returned an existing token.
C22_CollisionRetried ==
    [][(\E t \in Tokens, l \in DailyLimitInputs, c \in InitialCreditInputs :
            admin_generate_key(TRUE, t, l, c))
          => /\ reply'.status = 200
             /\ reply'.api_key \notin DOMAIN api_keys
             /\ reply'.api_key \in DOMAIN api_keys']_vars

\* C23: admin adjustments keep the balance floor: a key that no request
\* has been charged on, whatever /admin/generateapi and /admin/addcredits
\* calls were made for it, has credits >= 0.
C23_AdminKeepsFloor ==
    \A k \in DOMAIN api_keys :
        ledger[k].spent = 0 => api_keys[k].credits >= 0

\* a verified call of an admin operation that targets key k
KeyAdminCall(k) ==
    \/ \E l \in DailyLimitInputs : admin_increase_limit(TRUE, k, l)
    \/ \E a \in AddCreditInputs : admin_add_credits(TRUE, k, a)
    \/ admin_reset_limit(TRUE, k)
    \/ admin_delete_key(TRUE, k)

\* C24: an admin operation that targets a token absent from the key store
\* returns 404 and changes no key record and no log entry.
C24_MissingKeyIs404 ==
    [][\A k \in Tokens \ DOMAIN api_keys :
          KeyAdminCall(k)
              => /\ reply'.status = 404
                 /\ api_keys' = api_keys
                 /\ logs' = logs
                 /\ log_seq' = log_seq]_vars

\* an admin operation has just been refused for a token that was issued
\* once and is no longer in the key store
C24_Witness ==
    /\ reply.status = 404
    /\ reply.op \in {"/admin/increaseapilimit", "/admin/addcredits",
                     "/admin/resetapilimit", "/admin/deleteapi"}
    /\ reply.api_key \in 1 .. minted
    /\ reply.api_key \notin DOMAIN api_keys

---------------------------------------------------------------------------
(* Listings and statistics.                                                *)

\* C25: /admin/listapi returns the keys in reverse order of creation: of
\* any two keys in the listing, the one issued later comes first.
C25_ListNewestFirst ==
    (reply.op = "/admin/listapi" /\ reply.status = 200)
        => \A i, j \in 1 .. Len(reply.body.keys) :
               i < j => reply.body.keys[i].key > reply.body.keys[j].key

\* C26: the ranking of /admin/stats lists at most 5 keys in non-increasing
\* order of today's logged request count, and keys with equal counts in
\* the order in which their first log entry of today was appended.
C26_TopUsersRanking ==
    [][admin_stats(TRUE)
          => LET r == reply'.body.top_users_today
                 today == LogsSince(logs, now)
             IN  /\ Len(r) <= 5
                 /\ \A i, j \in 1 .. Len(r) :
                       i < j
                         => /\ r[i].requests >= r[j].requests
                            /\ r[i].requests = r[j].requests
                                  => FirstSeen(today, r[i].api_key)
                                       < FirstSeen(today, r[j].api_key)]_vars

---------------------------------------------------------------------------
(* The bounded log and the two builds.                                     *)

\* C27: the step that drops the oldest entry of the full log changes the
\* key records only by the accounting of the request being logged: the
\* other records, the record of the dropped entry's key among them, stay
\* as they were.
C27_TrimLeavesKeyRecords ==
    [][\A k \in Tokens, ep \in Endpoints :
          (/\ Served(ep, k)
           /\ variant = "serverless"
           /\ Len(logs) = MaxLogs
           /\ logs' = Tail(Append(logs, logs'[Len(logs')])))
              => /\ DOMAIN api_keys' = DOMAIN api_keys
                 /\ \A x \in DOMAIN api_keys :
                       IF x = k
                       THEN /\ api_keys'[x].total_requests
                                 = api_keys[x].total_requests + 1
                            /\ api_keys'[x].daily_requests
                                 = api_keys[x].daily_requests + 1
                            /\ api_keys'[x].credits
                                 = api_keys[x].credits - PriceList[ep]
                       ELSE api_keys'[x] = api_keys[x]]_vars

\* the oldest entry has been dropped and its request is still counted
C27_Witness ==
    /\ variant = "serverless"
    /\ Len(logs) = MaxLogs
    /\ logs[1].id > 1
    /\ reply.status = 200
    /\ reply.api_key \in DOMAIN api_keys
    /\ api_keys[reply.api_key].total_requests > LogCount(logs, reply.api_key)

\* the other build
Other(v) ==
    IF v = "server" THEN "serverless" ELSE "server"

\* the step in which a request of ep on key k ends with a response, no
\* other request being suspended meanwhile; ok tells whether the
\* upstream call, if one was made, succeeded
EndsAlone(ep, k, ok) ==
    \/ /\ \A p \in Procs : req[p].pc = "idle"
       /\ \E code \in {200, 401, 402} : Answered(ep, k, code)
    \/ \E p \in Procs :
          /\ \A q \in Procs \ {p} : req[q].pc = "idle"
          /\ req[p].endpoint = ep
          /\ req[p].api_key = k
          /\ Completes(p, IF ok THEN 200 ELSE 500)

\* what both builds do with a request agrees with ServeAlone
ServeAloneIsTheHandler ==
    [][\A k \in Tokens, ep \in Endpoints, ok \in BOOLEAN :
          EndsAlone(ep, k, ok)
              => [api_keys |-> api_keys', logs |-> logs', log_seq |-> log_seq']
                   = ServeAlone(variant,
                                [api_keys |-> api_keys, logs |-> logs,
                                 log_seq |-> log_seq], ep, k, ok, now)]_vars

\* C28: the two builds are equivalent on metering: a request served with
\* no other request in between leaves every key with the credits,
\* total_requests and daily_requests, and the log with the number of
\* entries per key, that the other build leaves from the same store.
C28_BuildsAgreeOnMetering ==
    [][\A k \in Tokens, ep \in Endpoints, ok \in BOOLEAN :
          EndsAlone(ep, k, ok)
              => LET twin == ServeAlone(Other(variant),
                                        [api_keys |-> api_keys, logs |-> logs,
                                         log_seq |-> log_seq], ep, k, ok, now)
                 IN  /\ DOMAIN api_keys' = DOMAIN twin.api_keys
                     /\ \A x \in DOMAIN api_keys' :
                           /\ api_keys'[x].credits = twin.api_keys[x].credits
                           /\ api_keys'[x].total_requests
                                = twin.api_keys[x].total_requests
                           /\ api_keys'[x].daily_requests
                                = twin.api_keys[x].daily_requests
                           /\ LogCount(logs', x) = LogCount(twin.logs, x)]_vars

\* C29: in the serverless build the log reconciles with the balances: for
\* every key, the credits left plus the credits_used of its log entries
\* (credits.total_used of /api_key) are the credits issued plus the credits
\* the admin added.
C29_LogReconcilesCredits ==
    variant = "serverless"
        => \A k \in DOMAIN api_keys :
               api_keys[k].credits
                 + UsageReport(api_keys, logs, k, now).total_used
                   = ledger[k].issued + ledger[k].added

\* C30: the daily usage reported to callers agrees with the record: for
\* every key, the daily_used that /api_key and /admin/listapi compute is
\* the daily_requests counter of the key record.
C30_DailyUsedIsDailyRequests ==
    \A k \in DOMAIN api_keys :
        /\ UsageReport(api_keys, logs, k, now).daily_used
             = api_keys[k].daily_requests
        /\ KeyStats(api_keys, logs, k, now).daily_used
             = api_keys[k].daily_requests

---------------------------------------------------------------------------
(* What an operation leaves alone.                                         *)

\* C31: issuing a key never alters an existing key: after a call of
\* /admin/generateapi every key that was in the key store before is still
\* there with all its fields unchanged, also when the generated token
\* equals an existing token.
C31_IssueKeepsExistingKeys ==
    [][(\E auth \in BOOLEAN, t \in Tokens, l \in DailyLimitInputs,
           c \in InitialCreditInputs : admin_generate_key(auth, t, l, c))
          => \A x \in DOMAIN api_keys :
                /\ x \in DOMAIN api_keys'
                /\ api_keys'[x] = api_keys[x]]_vars

\* a metered request or an admin mutation addressed to key t takes a step:
\* the request is answered at once, suspends at its upstream call or
\* resumes from it; the admin call is of any operation that names one key
Addresses(t) ==
    \/ ffinfo_redirect(t)
    \/ \E p \in Procs : number_service(p, t)
    \/ \E p \in Procs : video_generation(p, t)
    \/ \E p \in Procs : text_generation(p, t)
    \/ \E p \in Procs : image_generation(p, t)
    \/ \E p \in Procs : qr_generation(p, t)
    \/ \E p \in Procs : voice_generation(p, t)
    \/ \E p \in Procs : req[p].api_key = t /\ (UpstreamOk(p) \/ UpstreamFail(p))
    \/ \E auth \in BOOLEAN, l \in DailyLimitInputs :
          admin_increase_limit(auth, t, l)
    \/ \E auth \in BOOLEAN, c \in AddCreditInputs :
          admin_add_credits(auth, t, c)
    \/ \E auth \in BOOLEAN : admin_reset_limit(auth, t)
    \/ \E auth \in BOOLEAN : admin_delete_key(auth, t)

\* the log entries of the keys other than t, in their order
EntriesOfOthers(lg, t) ==
    SelectSeq(lg, LAMBDA e : e.api_key # t)

\* the step leaves every key but t as it was: it adds no key, every other
\* key keeps its record, and the log entries of the other keys stay, except
\* that the in-memory build may drop the oldest entry of the full log
OnlyRecordOf(t) ==
    /\ DOMAIN api_keys' \subseteq DOMAIN api_keys
    /\ \A x \in DOMAIN api_keys \ {t} :
          /\ x \in DOMAIN api_keys'
          /\ api_keys'[x] = api_keys[x]
    /\ \/ EntriesOfOthers(logs', t) = EntriesOfOthers(logs, t)
       \/ /\ variant = "serverless"
          /\ Len(logs) = MaxLogs
          /\ Len(logs') = MaxLogs
          /\ EntriesOfOthers(logs', t) = EntriesOfOthers(Tail(logs), t)

\* C32: a metered request or an admin mutation addressed to key t changes
\* only the record of t: the records of the other keys are unchanged by it
\* and the only log entries it adds or removes, retention trimming apart,
\* are entries of t.
C32_OnlyTheAddressedKey ==
    [][\A t \in Tokens : OnlyRecordOf(t) \/ ~Addresses(t)]_vars

\* a request on one key has been served and counted while another key,
\* never used, is in the key store
C32_Witness ==
    /\ reply.status = 200
    /\ reply.op \in Endpoints
    /\ reply.api_key \in DOMAIN api_keys
    /\ api_keys[reply.api_key].last_used # NoTime
    /\ logs # <<>>
    /\ \E x \in DOMAIN api_keys \ {reply.api_key} :
          api_keys[x].last_used = NoTime

\* a call of one of the read-side operations
Query ==
    \/ \E k \in Tokens : check_api_usage(k)
    \/ \E auth \in BOOLEAN : admin_list_keys(auth)
    \/ \E auth \in BOOLEAN : admin_stats(auth)
    \/ health_check

\* C33: /api_key, /admin/listapi, /admin/stats and /health are pure
\* queries: a call of any of them changes no key record, last_used and the
\* daily counter included, and no entry of the usage log.
C33_QueriesArePure ==
    [][Query => /\ api_keys' = api_keys
                /\ logs' = logs
                /\ log_seq' = log_seq]_vars

\* a query has been answered from a store that holds a used key and its
\* log entry
C33_Witness ==
    /\ reply.status = 200
    /\ reply.op \in {"/api_key", "/admin/listapi", "/admin/stats", "/health"}
    /\ logs # <<>>
    /\ \E k \in DOMAIN api_keys : api_keys[k].total_requests > 0

---------------------------------------------------------------------------
(* The usage log of the in-memory build.                                   *)

\* the last n entries of lg, all of them when lg is shorter
LastEntries(lg, n) ==
    IF Len(lg) <= n THEN lg ELSE SubSeq(lg, Len(lg) - n + 1, Len(lg))

\* C34: the usage log of the in-memory build starts empty and never holds
\* more than the retention bound; every served request puts its entry at
\* the end and the log becomes the most recent entries of the extended
\* sequence, in arrival order; no other step touches the log.
C34_LogIsRecentWindow ==
    /\ (variant = "serverless" => logs = <<>>)
    /\ [](variant = "serverless" => Len(logs) <= MaxLogs)
    /\ [][variant = "serverless"
            => IF \E k \in Tokens, ep \in Endpoints : Served(ep, k)
               THEN \E k \in Tokens, ep \in Endpoints :
                       /\ Served(ep, k)
                       /\ logs' # <<>>
                       /\ logs'[Len(logs')].api_key = k
                       /\ logs'[Len(logs')].endpoint = ep
                       /\ logs'[Len(logs')].created_at = now
                       /\ logs' = LastEntries(Append(logs, logs'[Len(logs')]),
                                              MaxLogs)
               ELSE logs' = logs]_vars

\* the full log has lost its first entry: it holds the second and the
\* third entry appended
C34_Witness ==
    /\ variant = "serverless"
    /\ Len(logs) = MaxLogs
    /\ logs[1].id = 2
    /\ logs[MaxLogs].id = MaxLogs + 1

\* C35: in the in-memory build the ids of the entries held in the usage
\* log are pairwise distinct, in every reachable state, also after the
\* retention bound has caused trimming.
C35_LogIdsUnique ==
    variant = "serverless"
        => \A i, j \in 1 .. Len(logs) :
               logs[i].id = logs[j].id => i = j

====
